---- MODULE Spec2Model ----
(***************************************************************************)
(* A model of src/src/mod.ts (currency.js for Deno): the currency value    *)
(* type, its parser, its arithmetic, distribute and its formatter.         *)
(*                                                                         *)
(* JavaScript numbers are modelled as exact rationals in lowest terms,     *)
(* with NaN and the two infinities as separate values.  The binary         *)
(* representation error of a double (below 1e-15 relative) is not          *)
(* modelled; every rounding step the code performs (toFixed, Math.round,   *)
(* Math.floor, Math.ceil, ~~) is.  Strings are sequences of one-character  *)
(* strings, so that the regular expressions of the source can be modelled  *)
(* character by character.                                                 *)
(***************************************************************************)
EXTENDS Integers, Sequences, FiniteSets, TLC

\* ------------------------------------------------------------------
\* Bounds of the model
\* ------------------------------------------------------------------
MaxStrLen == 4       \* longest input string drawn for the parser
MaxCount == 4        \* largest count drawn for distribute
MaxAmount == 7       \* largest |amount| (minor units) drawn for distribute
MaxNegIter == 2      \* iterations followed of a distribute loop that cannot end
MaxHeap == 2         \* instances the caller constructs and holds

\* ------------------------------------------------------------------
\* Numbers
\* ------------------------------------------------------------------
Abs(i) == IF i < 0 THEN -i ELSE i

Sign(i) == IF i < 0 THEN -1 ELSE 1

RECURSIVE Gcd(_, _)
Gcd(a, b) == IF b = 0 THEN a ELSE Gcd(b, a % b)

RECURSIVE Pow10(_)
Pow10(p) == IF p = 0 THEN 1 ELSE 10 * Pow10(p - 1)

NaN == [k |-> "nan", n |-> 0, d |-> 1]

Inf(s) == [k |-> "inf", n |-> s, d |-> 1]

\* the rational n/d (d # 0) in lowest terms with a positive denominator
Num(n, d) ==
    LET g == Gcd(Abs(n), Abs(d))
    IN  [k |-> "num", n |-> Sign(d) * (n \div g), d |-> Abs(d) \div g]

Whole(i) == [k |-> "num", n |-> i, d |-> 1]

IsNaN(x) == x.k = "nan"

IsInteger(x) == x.k = "num" /\ x.d = 1

\* a * b
Mul(a, b) ==
    IF a.k = "nan" \/ b.k = "nan" THEN NaN
    ELSE IF a.k = "inf" \/ b.k = "inf"
         THEN IF a.n = 0 \/ b.n = 0 THEN NaN ELSE Inf(Sign(a.n) * Sign(b.n))
    ELSE LET g1 == Gcd(Abs(a.n), b.d)
             g2 == Gcd(Abs(b.n), a.d)
         IN  Num((a.n \div g1) * (b.n \div g2), (a.d \div g2) * (b.d \div g1))

\* a / b
Div(a, b) ==
    IF a.k = "nan" \/ b.k = "nan" THEN NaN
    ELSE IF a.k = "inf"
         THEN IF b.k = "inf" THEN NaN ELSE Inf(Sign(a.n) * Sign(b.n))
    ELSE IF b.k = "inf" THEN Whole(0)
    ELSE IF b.n = 0 THEN (IF a.n = 0 THEN NaN ELSE Inf(Sign(a.n)))
    ELSE Mul(a, [k |-> "num", n |-> Sign(b.n) * b.d, d |-> Abs(b.n)])

\* a + b
Add(a, b) ==
    IF a.k = "nan" \/ b.k = "nan" THEN NaN
    ELSE IF a.k = "inf"
         THEN IF b.k = "inf" /\ b.n # a.n THEN NaN ELSE a
    ELSE IF b.k = "inf" THEN b
    ELSE Num(a.n * b.d + b.n * a.d, a.d * b.d)

Neg(a) == [a EXCEPT !.n = -a.n]

\* a - b
Sub(a, b) == Add(a, Neg(b))

\* a >= 0 (false for NaN)
GeZero(a) == a.k # "nan" /\ a.n >= 0

\* Math.floor
MathFloor(x) == IF x.k # "num" THEN x ELSE Whole(x.n \div x.d)

\* Math.ceil
MathCeil(x) == IF x.k # "num" THEN x ELSE Whole(-((-x.n) \div x.d))

\* Math.abs
MathAbs(x) == IF x.k = "nan" THEN x ELSE [x EXCEPT !.n = Abs(x.n)]

\* ~~x : ToInt32, which truncates toward zero and maps NaN and the infinities to 0
Trunc(x) == IF x.k # "num" THEN 0 ELSE Sign(x.n) * (Abs(x.n) \div x.d)

\* a % b of JavaScript: the remainder has the sign of the dividend
Rem(a, b) ==
    IF a.k # "num" \/ b.k = "nan" \/ (b.k = "num" /\ b.n = 0) THEN NaN
    ELSE IF b.k = "inf" THEN a
    ELSE LET q == Trunc(Div(a, b)) IN Sub(a, Mul(Whole(q), b))

\* rounding to the nearest integer with ties away from zero (not what Math.round does)
RoundHalfAwayFromZero(x) ==
    IF x.k # "num" THEN x
    ELSE Whole(Sign(x.n) * ((2 * Abs(x.n) + x.d) \div (2 * x.d)))

\* const round = (v) => Math.round(v) : floor(v + 1/2), ties toward +Infinity
round(x) == IF x.k # "num" THEN x ELSE Whole((2 * x.n + x.d) \div (2 * x.d))

\* const pow = (p) => Math.pow(10, p)
pow(p) == Whole(Pow10(p))

\* const rounding = (value, increment) => round(value / increment) * increment
rounding(value, increment) == Mul(round(Div(value, increment)), increment)

\* ------------------------------------------------------------------
\* Strings
\* ------------------------------------------------------------------
Digits == <<"0", "1", "2", "3", "4", "5", "6", "7", "8", "9">>

IsDigit(c) == \E i \in 1..10 : Digits[i] = c

DigitVal(c) == (CHOOSE i \in 1..10 : Digits[i] = c) - 1

RECURSIVE NatToStr(_)
NatToStr(n) ==
    IF n < 10 THEN <<Digits[n + 1]>>
    ELSE Append(NatToStr(n \div 10), Digits[(n % 10) + 1])

RECURSIVE DigitsToNat(_)
DigitsToNat(s) ==
    IF s = <<>> THEN 0
    ELSE DigitsToNat(SubSeq(s, 1, Len(s) - 1)) * 10 + DigitVal(s[Len(s)])

RECURSIVE PadLeft(_, _)
PadLeft(s, len) == IF Len(s) >= len THEN s ELSE PadLeft(<<"0">> \o s, len)

\* the positions of character c in s
Positions(s, c) == {i \in 1..Len(s) : s[i] = c}

Min(S) == CHOOSE x \in S : \A y \in S : x <= y

Max(S) == CHOOSE x \in S : \A y \in S : x >= y

\* s.replace(new RegExp("[^-\\d" + decimal + "]", "g"), ""): the characters of s
\* that are a digit, "-" or the decimal mark, in order
StripNonNumeric(s, decimal) ==
    SelectSeq(s, LAMBDA c : IsDigit(c) \/ c = "-" \/ c = decimal)

\* s.replace(new RegExp("\\" + from, "g"), to) for one-character from and to
ReplaceAll(s, from, to) == [i \in 1..Len(s) |-> IF s[i] = from THEN to ELSE s[i]]

\* s.replace(c, by) for a one-character string c: the first occurrence only
ReplaceFirst(s, c, by) ==
    IF Positions(s, c) = {} THEN s
    ELSE LET i == Min(Positions(s, c))
         IN  SubSeq(s, 1, i - 1) \o by \o SubSeq(s, i + 1, Len(s))

\* s.replace(/\((.*)\)/, "-$1"): the leftmost "(" that has a ")" after it, up to
\* the last ")" (.* is greedy), is replaced by "-" and what stood between them
ReplaceParens(s) ==
    LET closes == Positions(s, ")")
        opens == {i \in Positions(s, "(") : \E j \in closes : j > i}
    IN  IF opens = {} THEN s
        ELSE LET i == Min(opens)
                 j == Max(closes)
             IN  SubSeq(s, 1, i - 1) \o <<"-">> \o SubSeq(s, i + 1, j - 1)
                     \o SubSeq(s, j + 1, Len(s))

InfinityStr == <<"I", "n", "f", "i", "n", "i", "t", "y">>

NaNStr == <<"N", "a", "N">>

\* Number.prototype.toFixed(f): "NaN", "Infinity", or the sign, the integer part,
\* and f fractional digits, the value rounded to them with ties away from zero
ToFixed(x, f) ==
    IF x.k = "nan" THEN NaNStr
    ELSE IF x.k = "inf" THEN (IF x.n < 0 THEN <<"-">> ELSE <<>>) \o InfinityStr
    ELSE LET a == Abs(x.n)
             ip == a \div x.d
             scaled == (a % x.d) * Pow10(f)
             q == (scaled \div x.d) + (IF 2 * (scaled % x.d) >= x.d THEN 1 ELSE 0)
             carry == IF q = Pow10(f) THEN 1 ELSE 0
             frac == IF carry = 1 THEN 0 ELSE q
         IN  (IF x.n < 0 THEN <<"-">> ELSE <<>>)
                 \o NatToStr(ip + carry)
                 \o (IF f = 0 THEN <<>> ELSE <<".">> \o PadLeft(NatToStr(frac), f))

\* the StrUnsignedDecimalLiteral of the ToNumber grammar, over digits and ".":
\* digits, digits "." digits?, or "." digits
IsDecimalLiteral(s) ==
    /\ \A i \in 1..Len(s) : IsDigit(s[i]) \/ s[i] = "."
    /\ Cardinality(Positions(s, ".")) <= 1
    /\ \E i \in 1..Len(s) : IsDigit(s[i])

DecimalValue(s) ==
    LET dots == Positions(s, ".")
        dot == IF dots = {} THEN Len(s) + 1 ELSE Min(dots)
        ints == SubSeq(s, 1, dot - 1)
        fracs == SubSeq(s, dot + 1, Len(s))
    IN  Add(Whole(DigitsToNat(ints)), Num(DigitsToNat(fracs), Pow10(Len(fracs))))

\* ToNumber of a string (the Number(...) coercion); the strings of the model hold
\* no white space, exponent, "+" or radix prefix
StringToNumber(s) ==
    IF s = <<>> THEN Whole(0)
    ELSE IF s = InfinityStr THEN Inf(1)
    ELSE IF s = <<"-">> \o InfinityStr THEN Inf(-1)
    ELSE IF s[1] = "-"
         THEN (IF IsDecimalLiteral(Tail(s)) THEN Neg(DecimalValue(Tail(s))) ELSE NaN)
    ELSE IF IsDecimalLiteral(s) THEN DecimalValue(s)
    ELSE NaN

\* ------------------------------------------------------------------
\* Values of the language
\* ------------------------------------------------------------------
NumV(x) == [t |-> "number", num |-> x]

StrV(s) == [t |-> "string", str |-> s]

CurV(c) == [t |-> "currency", cur |-> c]

\* a value that is neither a number, a string nor a currency, such as {}
ObjV == [t |-> "object"]

\* ToNumber
ToNumber(v) ==
    IF v.t = "number" THEN v.num
    ELSE IF v.t = "string" THEN StringToNumber(v.str)
    ELSE NaN

\* ------------------------------------------------------------------
\* The program's state
\* ------------------------------------------------------------------
VARIABLES
    defaults,   \* the module-level defaults object
    heap,       \* the currency instances constructed so far, oldest first
    pc,         \* "idle", "loop" inside distribute's for loop, "returned" from a call
    frame,      \* the locals of the running distribute call
    last        \* the last call and its outcome

vars == <<defaults, heap, pc, frame, last>>

\* const defaults: Options = {...}
DefaultOptions ==
    [symbol |-> <<"$">>, separator |-> <<",">>, decimal |-> ".",
     errorOnInvalid |-> FALSE, precision |-> 2, pattern |-> <<"!", "#">>,
     negativePattern |-> <<"-", "!", "#">>, format |-> "format",
     fromCents |-> FALSE]

\* an absent opts argument, and the {} literal
NoOpts == [o \in {} |-> TRUE]

Has(o, key) == key \in DOMAIN o

\* Object.assign(target, a, b): the properties of b over those of a over target's
ObjectAssign(target, a, b) ==
    [key \in DOMAIN target \cup DOMAIN a \cup DOMAIN b |->
        IF key \in DOMAIN b THEN b[key]
        ELSE IF key \in DOMAIN a THEN a[key] ELSE target[key]]

\* obj.key = val
Put(obj, key, val) ==
    [kk \in DOMAIN obj \cup {key} |-> IF kk = key THEN val ELSE obj[kk]]

\* the truth value of settings.increment: undefined, 0 and NaN are false
HasIncrement(settings) ==
    /\ Has(settings, "increment")
    /\ settings.increment.k # "nan"
    /\ settings.increment.n # 0

\* the truth value of settings.useVedic
IsVedic(settings) == Has(settings, "useVedic") /\ settings.useVedic

\* ------------------------------------------------------------------
\* parse
\* ------------------------------------------------------------------
Thrown == [thrown |-> TRUE]

Returned(v) == [thrown |-> FALSE, v |-> v]

\* the string branch of parse, up to v = v || 0
parseString(str, decimal) ==
    LET cleaned == ReplaceAll(StripNonNumeric(ReplaceParens(str), decimal),
                              decimal, ".")
    IN  IF cleaned = <<>> THEN NumV(Whole(0)) ELSE StrV(cleaned)

\* the end of parse, from "if (!fromCents)": v scaled and cut to 4 decimals by
\* toFixed (which makes it a string), then rounded when useRounding
parseScaled(v, opts, useRounding) ==
    IF useRounding THEN NumV(round(ToNumber(v))) ELSE v

parseValue(v, opts, useRounding) ==
    parseScaled(IF ~opts.fromCents
                THEN StrV(ToFixed(Mul(ToNumber(v), pow(opts.precision)), 4))
                ELSE v,
                opts, useRounding)

\* parse with the errorOnInvalid test made before the string branch
parseErrorOnAnyNonNumber(value, opts, useRounding) ==
    IF value.t = "currency" /\ opts.fromCents THEN Returned(NumV(value.cur.intValue))
    ELSE IF value.t = "number" THEN Returned(parseValue(value, opts, useRounding))
    ELSE IF value.t = "currency"
         THEN Returned(parseValue(NumV(value.cur.value), opts, useRounding))
    ELSE IF opts.errorOnInvalid THEN Thrown
    ELSE IF value.t = "string"
         THEN Returned(parseValue(parseString(value.str, opts.decimal), opts, useRounding))
    ELSE Returned(parseValue(NumV(Whole(0)), opts, useRounding))

\* function parse(value, opts, useRounding = true): the number it returns (a
\* string when toFixed made one and useRounding is false), or the error it throws
parse(value, opts, useRounding) ==
    IF value.t = "currency" /\ opts.fromCents THEN Returned(NumV(value.cur.intValue))
    ELSE IF value.t = "number" THEN Returned(parseValue(value, opts, useRounding))
    ELSE IF value.t = "currency"
         THEN Returned(parseValue(NumV(value.cur.value), opts, useRounding))
    ELSE IF value.t = "string"
         THEN Returned(parseValue(parseString(value.str, opts.decimal), opts, useRounding))
    ELSE IF opts.errorOnInvalid THEN Thrown
    ELSE Returned(parseValue(NumV(Whole(0)), opts, useRounding))

\* ------------------------------------------------------------------
\* The constructor
\* ------------------------------------------------------------------
\* the constructor from "that.intValue = v" on: v is what parse returned
currencyOf(settings, precision, p) ==
    IF p.thrown THEN Thrown
    ELSE [thrown |-> FALSE,
          cur |-> [intValue |-> p.v.num,
                   value |-> Div(p.v.num, precision),
                   _settings |->
                       Put(Put(settings, "increment",
                               IF HasIncrement(settings) THEN settings.increment
                               ELSE Div(Whole(1), precision)),
                           "groups",
                           IF IsVedic(settings) THEN "vedicRegex" ELSE "groupRegex"),
                   _precision |-> precision]]

\* the constructor once settings = Object.assign({}, defaults, opts) is made
currencyWith(value, settings) ==
    currencyOf(settings, pow(settings.precision), parse(value, settings, TRUE))

\* function currency(value, opts): the new instance, or the error of parse
currency(value, opts) == currencyWith(value, ObjectAssign(NoOpts, defaults, opts))

\* ------------------------------------------------------------------
\* Methods.  Each returns what the call returns or throws, and "this": the
\* receiver as the call leaves it.
\* ------------------------------------------------------------------
\* toString()
toString(this) ==
    ToFixed(rounding(Div(this.intValue, this._precision), this._settings.increment),
            this._settings.precision)

\* valueOf()
valueOf(this) == StringToNumber(toString(this))

\* toJSON()
toJSON(this) == this.value

\* dollars()
dollars(this) == Trunc(this.value)

\* cents()
cents(this) == Trunc(Rem(this.intValue, this._precision))

\* ToNumber of an operand used as a raw number: an instance goes through valueOf
OperandToNumber(v) == IF v.t = "currency" THEN valueOf(v.cur) ELSE ToNumber(v)

\* what a method returns to its caller: r is its currency(...) call
Outcome(this, r) ==
    [thrown |-> r.thrown, ret |-> IF r.thrown THEN <<>> ELSE r.cur, this |-> this]

\* the result of a method that ends in return currency(value, _settings)
Reconstruct(this, value) == Outcome(this, currency(NumV(value), this._settings))

\* the divisor of add, subtract and distribute: _settings.fromCents ? 1 : _precision
Rescale(this) == IF this._settings.fromCents THEN Whole(1) ELSE this._precision

\* add from "intValue +=", p being what parse(number, _settings) returned
addParsed(this, p) ==
    IF p.thrown THEN [thrown |-> TRUE, ret |-> <<>>, this |-> this]
    ELSE Reconstruct(this, Div(Add(this.intValue, p.v.num), Rescale(this)))

\* add with this.intValue += ... in place of the local intValue += ...
addInPlace(this, number) ==
    IF parse(number, this._settings, TRUE).thrown
    THEN addParsed(this, parse(number, this._settings, TRUE))
    ELSE [addParsed(this, parse(number, this._settings, TRUE)) EXCEPT
             !.this = [this EXCEPT !.intValue =
                          Add(this.intValue, parse(number, this._settings, TRUE).v.num)]]

\* add(number): intValue is a local copy, so intValue += ... leaves this alone
add(this, number) == addParsed(this, parse(number, this._settings, TRUE))

\* subtract from "intValue -="
subtractParsed(this, p) ==
    IF p.thrown THEN [thrown |-> TRUE, ret |-> <<>>, this |-> this]
    ELSE Reconstruct(this, Div(Sub(this.intValue, p.v.num), Rescale(this)))

\* subtract(number)
subtract(this, number) == subtractParsed(this, parse(number, this._settings, TRUE))

\* multiply with the multiplier passed through parse like a monetary amount
multiplyParsed(this, number) ==
    Reconstruct(this,
        Div(Mul(this.intValue, ToNumber(parse(number, this._settings, TRUE).v)),
            IF this._settings.fromCents THEN Whole(1)
            ELSE pow(this._settings.precision)))

\* multiply(number)
multiply(this, number) ==
    Reconstruct(this,
        Div(Mul(this.intValue, OperandToNumber(number)),
            IF this._settings.fromCents THEN Whole(1)
            ELSE pow(this._settings.precision)))

\* divide from "intValue /="
divideParsed(this, p) ==
    IF p.thrown THEN [thrown |-> TRUE, ret |-> <<>>, this |-> this]
    ELSE Reconstruct(this, Div(this.intValue, ToNumber(p.v)))

\* divide(number)
divide(this, number) == divideParsed(this, parse(number, this._settings, FALSE))

\* ------------------------------------------------------------------
\* Formatting
\* ------------------------------------------------------------------
RECURSIVE DecimalPlaces(_, _)
DecimalPlaces(d, places) ==
    IF Pow10(places) % d = 0 THEN places ELSE DecimalPlaces(d, places + 1)

\* Number::toString of a number with finitely many decimals: the shortest
\* decimal form, without trailing zeros
NumberToString(x) ==
    IF x.k = "num" THEN ToFixed(x, DecimalPlaces(x.d, 0)) ELSE ToFixed(x, 0)

\* "" + currency: the + operator asks for the primitive value, which valueOf
\* gives (a number), and converts it to a string
Concat(cur) == NumberToString(valueOf(cur))

\* const groupRegex = /(\d)(?=(\d{3})+\b)/g, const vedicRegex = /(\d)(?=(\d\d)+\d\b)/g:
\* whether the regular expression matches the digit at i.  The subject holds
\* letters and digits only, so the \b that ends the lookahead is the end of s.
GroupsMatch(groups, s, i) ==
    /\ IsDigit(s[i])
    /\ \A j \in (i + 1)..Len(s) : IsDigit(s[j])
    /\ IF groups = "vedicRegex"
       THEN \E n \in 1..Len(s) : i + 2 * n + 1 = Len(s)
       ELSE \E n \in 1..Len(s) : i + 3 * n = Len(s)

\* dollars.replace(groups, "$1" + separator)
RECURSIVE ReplaceGroups(_, _, _, _)
ReplaceGroups(s, groups, separator, i) ==
    IF i > Len(s) THEN <<>>
    ELSE <<s[i]>> \o (IF GroupsMatch(groups, s, i) THEN separator ELSE <<>>)
             \o ReplaceGroups(s, groups, separator, i + 1)

\* s.split("."): the pieces of s between the dots
RECURSIVE Split(_)
Split(s) ==
    IF Positions(s, ".") = {} THEN <<s>>
    ELSE <<SubSeq(s, 1, Min(Positions(s, ".")) - 1)>>
             \o Split(SubSeq(s, Min(Positions(s, ".")) + 1, Len(s)))

\* s.replace(/^-/, "")
StripMinus(s) == IF s # <<>> /\ s[1] = "-" THEN Tail(s) ELSE s

\* format from its return statement: dollars = split[0], cents = split[1]
formatSplit(cur, settings, split) ==
    ReplaceFirst(
        ReplaceFirst(IF GeZero(cur.value) THEN settings.pattern
                     ELSE settings.negativePattern,
                     "!", settings.symbol),
        "#",
        ReplaceGroups(split[1], settings.groups, settings.separator, 1)
            \o (IF Len(split) >= 2 /\ split[2] # <<>>
                THEN <<settings.decimal>> \o split[2] ELSE <<>>))

\* function format(currency, settings)
format(cur, settings) == formatSplit(cur, settings, Split(StripMinus(Concat(cur))))

\* a formatter of the caller's: type Format = (currency, opts) => string
CustomFormat(cur, settings) == toString(cur) \o settings.symbol

\* a call of a value of type Format
CallFormat(fn, cur, settings) ==
    IF fn = "format" THEN format(cur, settings) ELSE CustomFormat(cur, settings)

FnV(fn) == [t |-> "function", fn |-> fn]

OptV(opts) == [t |-> "options", opts |-> opts]

\* format(options) of the prototype
Currency_format(this, options) ==
    IF options.t = "function" THEN CallFormat(options.fn, this, this._settings)
    ELSE CallFormat(this._settings.format, this,
                    ObjectAssign(NoOpts, this._settings, options.opts))

\* ------------------------------------------------------------------
\* distribute
\* ------------------------------------------------------------------
\* the locals of distribute(count), split being Math.floor or Math.ceil of
\* intValue / count
distributeLocals(this, count, split) ==
    [this |-> this, intValue |-> this.intValue, count |-> count,
     distribution |-> <<>>, split |-> split,
     pennies |-> MathAbs(Sub(this.intValue, Mul(split, Whole(count)))),
     precision |-> Rescale(this)]

\* distribute with Math.floor for every sign of intValue
distributeEnterFloor(this, count) ==
    distributeLocals(this, count, MathFloor(Div(this.intValue, Whole(count))))

\* distribute(count) up to its for loop
distributeEnter(this, count) ==
    distributeLocals(this, count,
        IF GeZero(this.intValue) THEN MathFloor(Div(this.intValue, Whole(count)))
        ELSE MathCeil(Div(this.intValue, Whole(count))))

\* pennies-- >= 0: one share too many gets a penny
HasPenniesOffByOne(f) == f.pennies.k # "nan" /\ f.pennies.n >= 0

\* pennies-- > 0
HasPennies(f) == f.pennies.k # "nan" /\ f.pennies.n > 0

\* the body of the for loop from "pennies-- > 0 &&", and the loop's count--
distributeItem(f, item) ==
    [f EXCEPT !.pennies = Sub(f.pennies, Whole(1)),
              !.distribution =
                  Append(f.distribution,
                         IF ~HasPennies(f) THEN item
                         ELSE IF GeZero(f.intValue)
                              THEN add(item, NumV(Div(Whole(1), f.precision))).ret
                              ELSE subtract(item, NumV(Div(Whole(1), f.precision))).ret),
              !.count = f.count - 1]

\* one pass of the for loop
distributeStep(f) ==
    distributeItem(f, Reconstruct(f.this, Div(f.split, f.precision)).ret)

\* ------------------------------------------------------------------
\* Inputs
\* ------------------------------------------------------------------
Chars == {"2", "5", "-", ".", ",", "(", ")"}

Strings(maxLen) == UNION {[1..n -> Chars] : n \in 0..maxLen}

\* the options the parser is exercised under
ParseOpts ==
    {NoOpts, [precision |-> 0], [fromCents |-> TRUE], [decimal |-> ","],
     [errorOnInvalid |-> TRUE, precision |-> 1]}

\* numbers with ties and near-ties at and past the target scale
ParseNumbers ==
    {Num(n, 100000) : n \in {0, 250000, -250000, 50000, -50000, 249996, -249996,
                             250004, -250004, 2500, -2500, 100500, 1234}}
        \cup {Num(n, 10000000) : n \in {249996, -249996, 250004, -250004}}

\* instances to construct from, themselves built by the constructor
ParseInstances ==
    {currency(NumV(Num(-5, 2)), opts).cur : opts \in {NoOpts, [precision |-> 0]}}

ParseInputs ==
    {StrV(str) : str \in Strings(MaxStrLen)}
        \cup {NumV(x) : x \in ParseNumbers}
        \cup {CurV(c) : c \in ParseInstances}
        \cup {ObjV}

\* ------------------------------------------------------------------
\* Actions
\* ------------------------------------------------------------------
Init ==
    /\ defaults = DefaultOptions
    /\ heap = <<>>
    /\ pc = "idle"
    /\ frame = <<>>
    /\ last = [op |-> "none"]

\* the call returns or throws: the caller holds the outcome
Constructed(value, opts, r) ==
    /\ heap' = IF r.thrown THEN heap ELSE Append(heap, r.cur)
    /\ last' = [op |-> "construct", value |-> value, opts |-> opts,
                thrown |-> r.thrown, ret |-> IF r.thrown THEN <<>> ELSE r.cur]
    /\ pc' = "returned"
    /\ UNCHANGED <<defaults, frame>>

\* currency(value, opts) called by the user, who keeps the instance it returns
Construct(Inputs, Opts, cap) ==
    /\ pc = "idle"
    /\ Len(heap) < cap
    /\ \E value \in Inputs, opts \in Opts : Constructed(value, opts, currency(value, opts))

\* the caller goes on after a call
Resume ==
    /\ pc = "returned"
    /\ pc' = "idle"
    /\ last' = [op |-> "none"]
    /\ UNCHANGED <<defaults, heap, frame>>

\* the operands a caller can pass: the given values and the instances it holds
Operands(Values) == Values \cup {CurV(heap[j]) : j \in 1..Len(heap)}

\* a method of heap[i] has returned r: the receiver is as the call left it
Invoke(op, i, x, r) ==
    /\ heap' = [heap EXCEPT ![i] = r.this]
    /\ last' = [op |-> op, this |-> i, arg |-> x, thrown |-> r.thrown, ret |-> r.ret]
    /\ pc' = "returned"
    /\ UNCHANGED <<defaults, frame>>

AddCall(Args) ==
    /\ pc = "idle"
    /\ \E i \in 1..Len(heap), x \in Operands(Args) : Invoke("add", i, x, add(heap[i], x))

SubtractCall(Args) ==
    /\ pc = "idle"
    /\ \E i \in 1..Len(heap), x \in Operands(Args) :
          Invoke("subtract", i, x, subtract(heap[i], x))

MultiplyCall(Args) ==
    /\ pc = "idle"
    /\ \E i \in 1..Len(heap), x \in Args : Invoke("multiply", i, x, multiply(heap[i], x))

DivideCall(Args) ==
    /\ pc = "idle"
    /\ \E i \in 1..Len(heap), x \in Operands(Args) :
          Invoke("divide", i, x, divide(heap[i], x))

\* a method that only reads this has returned ret
Read(op, i, x, ret) ==
    /\ last' = [op |-> op, this |-> i, arg |-> x, thrown |-> FALSE, ret |-> ret]
    /\ pc' = "returned"
    /\ UNCHANGED <<defaults, heap, frame>>

DollarsCall ==
    /\ pc = "idle"
    /\ \E i \in 1..Len(heap) : Read("dollars", i, <<>>, dollars(heap[i]))

CentsCall ==
    /\ pc = "idle"
    /\ \E i \in 1..Len(heap) : Read("cents", i, <<>>, cents(heap[i]))

ToStringCall ==
    /\ pc = "idle"
    /\ \E i \in 1..Len(heap) : Read("toString", i, <<>>, toString(heap[i]))

ValueOfCall ==
    /\ pc = "idle"
    /\ \E i \in 1..Len(heap) : Read("valueOf", i, <<>>, valueOf(heap[i]))

ToJSONCall ==
    /\ pc = "idle"
    /\ \E i \in 1..Len(heap) : Read("toJSON", i, <<>>, toJSON(heap[i]))

FormatCall(Args) ==
    /\ pc = "idle"
    /\ \E i \in 1..Len(heap), options \in Args :
          Read("format", i, options, Currency_format(heap[i], options))

\* distribute(count) up to its for loop
DistributeCall(Counts) ==
    /\ pc = "idle"
    /\ \E i \in 1..Len(heap), count \in Counts :
          /\ frame' = distributeEnter(heap[i], count)
          /\ last' = [op |-> "distribute", this |-> i, arg |-> count,
                      thrown |-> FALSE, ret |-> <<>>]
    /\ pc' = "loop"
    /\ UNCHANGED <<defaults, heap>>

\* for (; count !== 0; count--) { ... }: one pass.  A loop entered with a
\* negative count never ends; MaxNegIter of its passes are followed.
DistributeIter ==
    /\ pc = "loop"
    /\ frame.count # 0
    /\ frame.count > -(MaxNegIter + 1)
    /\ frame' = distributeStep(frame)
    /\ UNCHANGED <<defaults, heap, pc, last>>

\* return distribution
DistributeReturn ==
    /\ pc = "loop"
    /\ frame.count = 0
    /\ pc' = "returned"
    /\ frame' = <<>>
    /\ last' = [last EXCEPT !.ret = frame.distribution]
    /\ UNCHANGED <<defaults, heap>>

\* ------------------------------------------------------------------
\* The parser on its own: one construction from every input
\* ------------------------------------------------------------------
NextParse == Construct(ParseInputs, ParseOpts, 1) \/ Resume

SpecParse == Init /\ [][NextParse]_vars

\* ------------------------------------------------------------------
\* distribute on its own: a receiver, then distribute calls on it
\* ------------------------------------------------------------------
DistOpts == {NoOpts, [fromCents |-> TRUE], [precision |-> 0]}

DistInputs ==
    {NumV(Num(a, 100)) : a \in -MaxAmount..MaxAmount}
        \cup {NumV(Whole(a)) : a \in -MaxAmount..MaxAmount}
        \cup {NumV(Whole(100))}

DistCounts == -1..MaxCount

NextDist ==
    \/ Construct(DistInputs, DistOpts, 1)
    \/ DistributeCall(DistCounts)
    \/ DistributeIter
    \/ DistributeReturn
    \/ Resume

SpecDist == Init /\ [][NextDist]_vars

\* ------------------------------------------------------------------
\* The whole interface
\* ------------------------------------------------------------------
GenOpts == {NoOpts, [fromCents |-> TRUE, errorOnInvalid |-> TRUE], [precision |-> 0]}

GenInputs == {NumV(Num(1, 100)), NumV(Num(-5, 2)), ObjV}

AddArgs == {NumV(Num(1, 100)), StrV(<<"2", "-", "5">>)}

MulArgs == {NumV(Num(249996, 100000)), NumV(Num(-1, 2)), NumV(Num(1, 4))}

DivArgs == {NumV(Whole(0)), NumV(Whole(3))}

FormatArgs ==
    {OptV(NoOpts), OptV([useVedic |-> TRUE]),
     OptV([symbol |-> <<"E">>, separator |-> <<".">>, decimal |-> ",",
           pattern |-> <<"#", " ", "!">>, negativePattern |-> <<"(", "#", ")">>]),
     FnV("custom")}

GenFormatArgs == {OptV([symbol |-> <<"E">>]), FnV("custom")}

GenCounts == {0, 2}

Next ==
    \/ Construct(Operands(GenInputs), GenOpts, MaxHeap)
    \/ AddCall(AddArgs)
    \/ SubtractCall(AddArgs)
    \/ MultiplyCall(MulArgs)
    \/ DivideCall(DivArgs)
    \/ DollarsCall
    \/ CentsCall
    \/ ToStringCall
    \/ ValueOfCall
    \/ ToJSONCall
    \/ FormatCall(GenFormatArgs)
    \/ DistributeCall(GenCounts)
    \/ DistributeIter
    \/ DistributeReturn
    \/ Resume

Spec == Init /\ [][Next]_vars

\* ------------------------------------------------------------------
\* The formatter on its own: a value, then format calls on it
\* ------------------------------------------------------------------
FormatOpts ==
    {NoOpts, [useVedic |-> TRUE], [precision |-> 0, symbol |-> <<"R", "s">>],
     [format |-> "custom", increment |-> Num(1, 20)]}

FormatInputs ==
    {NumV(Whole(1234567)), NumV(Whole(100000)), NumV(Num(-24691, 20)),
     NumV(Num(103, 100)), NumV(Whole(0)), StrV(<<"2", "-", "5">>)}

NextFormat ==
    \/ Construct(FormatInputs, FormatOpts, 1)
    \/ FormatCall(FormatArgs)
    \/ ToStringCall
    \/ Resume

SpecFormat == Init /\ [][NextFormat]_vars

\* ------------------------------------------------------------------
\* Properties
\* ------------------------------------------------------------------
\* the receiver of the last call
Receiver == heap[last.this]

\* the settings a construction with opts works under
Effective(opts) == ObjectAssign(NoOpts, DefaultOptions, opts)

Supported(v) == v.t \in {"number", "string", "currency"}

\* k is x rounded to the nearest integer, a tie going toward +Infinity
NearestTiesUp(k, x) == (2 * k - 1) * x.d <= 2 * x.n /\ 2 * x.n < (2 * k + 1) * x.d

\* k is x rounded to the nearest integer, a tie going away from zero
NearestTiesAway(k, x) ==
    /\ 2 * Abs(k * x.d - x.n) <= x.d
    /\ 2 * Abs(k * x.d - x.n) = x.d => Abs(k * x.d) > Abs(x.n)

\* k is within half a unit of x
Nearest(k, x) == 2 * Abs(k * x.d - x.n) <= x.d

\* k is x rounded down or up
FloorOrCeil(k, x) == x.n - x.d < k * x.d /\ k * x.d < x.n + x.d

\* x has at most four decimals
FourDecimals(x) == 10000 % x.d = 0

RECURSIVE SumIntValues(_)
SumIntValues(shares) ==
    IF shares = <<>> THEN 0 ELSE shares[1].intValue.n + SumIntValues(Tail(shares))

\* a distribute call on an integer amount with a positive count has returned
Distributed ==
    /\ pc = "returned"
    /\ last.op = "distribute"
    /\ last.arg > 0
    /\ IsInteger(Receiver.intValue)

\* C1: the shares distribute(n) returns for an integer amount a and n > 0 are
\* integers that sum to a, and no two of them differ by more than 1
C1_Conservation ==
    Distributed =>
        /\ \A j \in 1..Len(last.ret) : IsInteger(last.ret[j].intValue)
        /\ SumIntValues(last.ret) = Receiver.intValue.n
        /\ \A i, j \in 1..Len(last.ret) :
              Abs(last.ret[i].intValue.n - last.ret[j].intValue.n) <= 1

\* 10000 minor units over 3 have come back as shares that are not all equal
C1_Witness ==
    /\ Distributed
    /\ Receiver.intValue.n = 10000
    /\ last.arg = 3
    /\ SumIntValues(last.ret) = 10000
    /\ last.ret[1].intValue.n # last.ret[3].intValue.n

\* the base share of the claim: floor(a/n) for a >= 0, ceil(a/n) for a < 0
BaseShare(a, n) == IF a >= 0 THEN a \div n ELSE -((-a) \div n)

\* the share the claim gives the j-th recipient
ExpectedShare(a, n, j) ==
    IF j <= Abs(a - BaseShare(a, n) * n)
    THEN BaseShare(a, n) + (IF a >= 0 THEN 1 ELSE -1)
    ELSE BaseShare(a, n)

\* C2: distribute(n) returns exactly n shares, the first |a - base*n| of them
\* base+1 (base-1 for a < 0) and the others base, base being floor(a/n) for
\* a >= 0 and ceil(a/n) for a < 0
C2_Shares ==
    Distributed =>
        /\ Len(last.ret) = last.arg
        /\ \A j \in 1..Len(last.ret) :
              last.ret[j].intValue = Whole(ExpectedShare(Receiver.intValue.n, last.arg, j))

\* -7 minor units over 4 have come back as -2, -2, -2, -1
C2_Witness ==
    /\ Distributed
    /\ Receiver.intValue.n = -7
    /\ last.arg = 4
    /\ [j \in 1..4 |-> last.ret[j].intValue.n] = <<-2, -2, -2, -1>>

\* C3: a distribute call with count <= 0 that is back with its caller has thrown
C3_FailsFast ==
    (pc = "returned" /\ last.op = "distribute" /\ last.arg <= 0) => last.thrown

\* a construction has come back to its caller
ConstructReturned == pc = "returned" /\ last.op = "construct"

\* C5: the constructor throws exactly when errorOnInvalid is set and the input
\* is neither a number, a string nor an instance; with errorOnInvalid unset
\* such an input gives intValue 0
C5_InvalidInput ==
    ConstructReturned =>
        /\ last.thrown <=> (Effective(last.opts).errorOnInvalid /\ ~Supported(last.value))
        /\ (~Supported(last.value) /\ ~Effective(last.opts).errorOnInvalid)
              => last.ret.intValue = Whole(0)

\* an object passed with errorOnInvalid set has made the constructor throw
C5_Witness ==
    /\ ConstructReturned
    /\ last.value = ObjV
    /\ Effective(last.opts).errorOnInvalid
    /\ last.thrown

\* what is left of a string after the parentheses are rewritten and the other
\* characters stripped is empty or is not a decimal literal
Malformed(str, decimal) ==
    \/ parseString(str, decimal).t = "number"
    \/ /\ parseString(str, decimal).t = "string"
       /\ IsNaN(StringToNumber(parseString(str, decimal).str))

\* C6: a string whose cleaned form is empty or not a valid number constructs,
\* without an error, a value whose intValue is 0
C6_MalformedIsZero ==
    (/\ ConstructReturned
     /\ last.value.t = "string"
     /\ Malformed(last.value.str, Effective(last.opts).decimal))
        => ~last.thrown /\ last.ret.intValue = Whole(0)

\* the input of the last construction as a number
InputNumber ==
    IF last.value.t = "number" THEN last.value.num
    ELSE ToNumber(parseString(last.value.str, Effective(last.opts).decimal))

\* the input of the last construction times 10^precision
ScaledInput == Mul(InputNumber, pow(Effective(last.opts).precision))

\* a finite number or well-formed string in major units has been parsed
ParsedMajorUnits ==
    /\ ConstructReturned
    /\ last.value.t \in {"number", "string"}
    /\ ~Effective(last.opts).fromCents
    /\ InputNumber.k = "num"

\* C10 as stated: the parser gives the scaled input rounded to the nearest
\* integer, a tie going away from zero (-2.5 gives -3)
C10_HalfAwayFromZero ==
    ParsedMajorUnits =>
        /\ IsInteger(last.ret.intValue)
        /\ NearestTiesAway(last.ret.intValue.n, ScaledInput)

\* C10 amended: the parser gives the scaled input rounded down or up, and for
\* a scaled input of at most four decimals it gives the nearest integer, a tie
\* going toward +Infinity (-2.5 gives -2, 2.5 gives 3)
C10_NearestTiesUp ==
    ParsedMajorUnits =>
        /\ IsInteger(last.ret.intValue)
        /\ FloorOrCeil(last.ret.intValue.n, ScaledInput)
        /\ FourDecimals(ScaledInput) => NearestTiesUp(last.ret.intValue.n, ScaledInput)

\* a scaled input of exactly -2.5 has been parsed to -2
C10_Witness ==
    /\ ParsedMajorUnits
    /\ ScaledInput = Num(-5, 2)
    /\ last.ret.intValue = Whole(-2)

\* add or subtract has come back to its caller
AddOrSubtractReturned ==
    /\ pc = "returned"
    /\ last.op \in {"add", "subtract"}
    /\ Supported(last.arg)

\* the operand of the last call parsed under the receiver's settings
ParsedOperand == parse(last.arg, Receiver._settings, TRUE).v.num

\* C4: add(x) and subtract(x) with a number, string or instance x return a
\* value whose intValue is the receiver's plus or minus parse(x) under the
\* receiver's settings, an exact integer, and whose settings are the receiver's
C4_AddSubtractExact ==
    AddOrSubtractReturned =>
        /\ ~last.thrown
        /\ IsInteger(last.ret.intValue)
        /\ last.ret.intValue = IF last.op = "add"
                               THEN Add(Receiver.intValue, ParsedOperand)
                               ELSE Sub(Receiver.intValue, ParsedOperand)
        /\ last.ret._settings = Receiver._settings

\* multiply with a number has come back to its caller
Multiplied ==
    /\ pc = "returned"
    /\ last.op = "multiply"
    /\ last.arg.t = "number"
    /\ IsInteger(Receiver.intValue)

\* the receiver's intValue times the multiplier
Product == Mul(Receiver.intValue, last.arg.num)

\* C8 as stated: multiply(x) returns a value whose intValue is the product
\* m * x rounded once to the nearest integer, with fromCents set or unset
C8_RoundedOnce ==
    Multiplied =>
        /\ IsInteger(last.ret.intValue)
        /\ Nearest(last.ret.intValue.n, Product)

\* C8 amended: multiply(x) returns a value whose intValue is the product m * x
\* rounded down or up; it is the nearest integer, a tie going toward
\* +Infinity, when fromCents is set or the product has at most four decimals
C8_RoundedAfterFourDecimals ==
    Multiplied =>
        /\ ~last.thrown
        /\ IsInteger(last.ret.intValue)
        /\ FloorOrCeil(last.ret.intValue.n, Product)
        /\ (Receiver._settings.fromCents \/ FourDecimals(Product))
              => NearestTiesUp(last.ret.intValue.n, Product)

\* with fromCents unset, a product of exactly -0.5 has been rounded to 0
C8_Witness ==
    /\ Multiplied
    /\ ~Receiver._settings.fromCents
    /\ Product = Num(-1, 2)
    /\ last.ret.intValue = Whole(0)

\* C9: no step changes an instance the caller holds (its intValue, value and
\* settings stay as constructed), and defaults keeps the values it was
\* declared with
C9_Immutable ==
    [][/\ \A i \in 1..Len(heap) : Len(heap') >= i /\ heap'[i] = heap[i]
       /\ defaults = DefaultOptions
       /\ defaults' = DefaultOptions]_vars

\* add has returned a new instance with another instance as operand, and the
\* two instances the caller holds are there with different amounts
C9_Witness ==
    /\ pc = "returned"
    /\ last.op = "add"
    /\ ~last.thrown
    /\ Len(heap) = 2
    /\ last.this = 1
    /\ last.arg = CurV(heap[2])
    /\ heap[1].intValue # heap[2].intValue
    /\ last.ret.intValue # heap[1].intValue
    /\ defaults = DefaultOptions

\* settings with the grouping expression chosen anew from useVedic, as the
\* constructor chooses it
Regrouped(settings) ==
    Put(settings, "groups", IF IsVedic(settings) THEN "vedicRegex" ELSE "groupRegex")

\* C7: format(options) with an options record returns the receiver rendered
\* under its settings with every field of options in force, useVedic and the
\* grouping that goes with it included
C7_OptionsOverride ==
    (pc = "returned" /\ last.op = "format" /\ last.arg.t = "options") =>
        last.ret = CallFormat(Receiver._settings.format, Receiver,
                              Regrouped(ObjectAssign(NoOpts, Receiver._settings,
                                                     last.arg.opts)))

====
